---- MODULE Spec2Model ----
(***************************************************************************)
(* Model of the Teslin performance chart: the date utilities               *)
(* (calculateYearFrac, findClosestDate, calculateStartDate), the period    *)
(* engine processData, the chart component ChartDisplay, the ingestion of  *)
(* FileUpload (processExcelFile) and the state of App with the effect of   *)
(* useDataProcessor.                                                       *)
(*                                                                         *)
(* A JavaScript Date is modelled by its time value at day precision: the   *)
(* number of whole days since 1970-01-01.  Time of day and the time zone   *)
(* are not modelled.  A nullable field (Date | null, number | null) is a   *)
(* sequence of length at most one: Null is <<>>, and Some(x) is <<x>>.     *)
(* A JavaScript number that results from a division is kept as an exact    *)
(* fraction [num, den] (see calculateYearFrac) or as a JsNumber record     *)
(* (see the return computation), never rounded.                            *)
(***************************************************************************)
EXTENDS Integers, Sequences, FiniteSets, TLC

VARIABLES
    yfArgs,     \* <<startDate, endDate>>: the arguments of calculateYearFrac
    yfRet,      \* Null before the call, Some(result) after it
    cdArgs,     \* <<targetDate, dates>>: the arguments of findClosestDate
    cdRet,      \* Null before the call, Some(result) after it
    today,      \* the wall clock processData reads with new Date()
    pdArgs,     \* [data, selectedPeriod, customPeriod]: arguments of processData
    pdRet,      \* Null before the call, Some(outcome) after it
    pdAgain,    \* Null, or Some(outcome) of a later call with the same arguments
    chart,      \* Null before ChartDisplay has rendered, Some(output) after it
    sdArgs,     \* <<period, endDate>>: the arguments of calculateStartDate
    sdRet,      \* Null before the call, Some(result) after it
    ingArgs,    \* jsonData: the rows of the sheet processExcelFile has read
    ingRet,     \* Null before the rows are processed, Some(outcome) after it
    app,        \* the state of App and of its useDataProcessor hook
    upload      \* the state of FileUpload and the file reads in flight

vars == <<yfArgs, yfRet, cdArgs, cdRet, today, pdArgs, pdRet, pdAgain, chart,
          sdArgs, sdRet, ingArgs, ingRet, app, upload>>
yfVars == <<yfArgs, yfRet>>
cdVars == <<cdArgs, cdRet>>
pdVars == <<today, pdArgs, pdRet, pdAgain, chart>>
sdVars == <<sdArgs, sdRet>>
ingVars == <<ingArgs, ingRet>>
appVars == <<app, upload>>

Null == <<>>
Some(x) == <<x>>

(***************************************************************************)
(* Bounds of the model.                                                    *)
(***************************************************************************)
\* The calendar the year-fraction specification draws its dates from is the
\* MaxMonths months that start with January 2020 (a leap year): it ends with
\* February 2021.
MaxMonths == 14
\* findClosestDate is applied to lists of at most MaxDates dates, drawn with
\* the target from the MaxDay + 1 days that start with 2015-03-30.
MaxDates == 3
MaxDay == 3
\* The application is followed through at most MaxUploads uploads.
MaxUploads == 2
\* processExcelFile is applied to sheets of at most MaxRows data rows.
MaxRows == 3
\* processData is applied to series of at most MaxLen samples.
MaxLen == 3

(***************************************************************************)
(* The JavaScript Date built-ins the source relies on.                     *)
(***************************************************************************)
\* Days from 1970-01-01 to the civil date (y, m, d), m in 1..12, proleptic
\* Gregorian calendar: the day part of ECMAScript's MakeDay/MakeDate.
DaysFromCivil(y, m, d) ==
    LET yy  == IF m <= 2 THEN y - 1 ELSE y
        era == yy \div 400
        yoe == yy - era * 400
        mp  == IF m > 2 THEN m - 3 ELSE m + 9
        doy == (153 * mp + 2) \div 5 + d - 1
        doe == yoe * 365 + yoe \div 4 - yoe \div 100 + doy
    IN  era * 146097 + doe - 719468

\* The civil date of a time value: [year, month (1..12), day].
CivilFromDays(t) ==
    LET z   == t + 719468
        era == z \div 146097
        doe == z - era * 146097
        yoe == (doe - doe \div 1460 + doe \div 36524 - doe \div 146096) \div 365
        doy == doe - (365 * yoe + yoe \div 4 - yoe \div 100)
        mp  == (5 * doy + 2) \div 153
        d   == doy - (153 * mp + 2) \div 5 + 1
        m   == IF mp < 10 THEN mp + 3 ELSE mp - 9
        y   == yoe + era * 400 + (IF m <= 2 THEN 1 ELSE 0)
    IN  [year |-> y, month |-> m, day |-> d]

getFullYear(t) == CivilFromDays(t).year
\* Date.prototype.getMonth is zero-based: 0 is January.
getMonth(t) == CivilFromDays(t).month - 1
getDate(t) == CivilFromDays(t).day

\* new Date(year, monthIndex, day) as setMonth/setFullYear/setDate compute it:
\* a month index outside 0..11 carries into the year and a day outside the
\* month carries into the neighbouring months (ECMAScript MakeDay).
MakeDay(year, monthIndex, day) ==
    LET ym == year + monthIndex \div 12
        mn == monthIndex % 12
    IN  DaysFromCivil(ym, mn + 1, 1) + day - 1

(***************************************************************************)
(* dateUtils: calculateYearFrac                                            *)
(***************************************************************************)
\* Mutant: the end-day rule tests the unadjusted start day against 30 only.
calculateYearFracEndRuleOnRawStart(startDate, endDate) ==
    LET s == IF startDate > endDate THEN endDate ELSE startDate
        e == IF startDate > endDate THEN startDate ELSE endDate
        startDay0 == getDate(s)
        endDay0   == getDate(e)
        endDay    == IF endDay0 = 31 /\ startDay0 = 30 THEN 30 ELSE endDay0
        startDay  == IF startDay0 = 31 THEN 30 ELSE startDay0
    IN  [num |-> ((getFullYear(e) - getFullYear(s)) * 360)
                 + (((getMonth(e) + 1) - (getMonth(s) + 1)) * 30)
                 + (endDay - startDay),
         den |-> 360]

\* Mutant: the arguments are not put in order.
calculateYearFracNoSwap(startDate, endDate) ==
    LET startDay0 == getDate(startDate)
        endDay0   == getDate(endDate)
        startDay  == IF startDay0 = 31 THEN 30 ELSE startDay0
        endDay    == IF endDay0 = 31 /\ startDay >= 30 THEN 30 ELSE endDay0
    IN  [num |-> ((getFullYear(endDate) - getFullYear(startDate)) * 360)
                 + (((getMonth(endDate) + 1) - (getMonth(startDate) + 1)) * 30)
                 + (endDay - startDay),
         den |-> 360]

\* TRUE iff t is the last day of February.
IsFebruaryEnd(t) == getMonth(t) = 1 /\ getMonth(t + 1) = 2

\* Mutant: a start date on the last day of February counts as the 30th.
calculateYearFracFebruaryRule(startDate, endDate) ==
    LET s == IF startDate > endDate THEN endDate ELSE startDate
        e == IF startDate > endDate THEN startDate ELSE endDate
        startDay0 == getDate(s)
        endDay0   == getDate(e)
        startDay  == IF startDay0 = 31 \/ IsFebruaryEnd(s) THEN 30 ELSE startDay0
        endDay    == IF endDay0 = 31 /\ startDay >= 30 THEN 30 ELSE endDay0
    IN  [num |-> ((getFullYear(e) - getFullYear(s)) * 360)
                 + (((getMonth(e) + 1) - (getMonth(s) + 1)) * 30)
                 + (endDay - startDay),
         den |-> 360]

\* The result days / 360 is kept as the fraction [num |-> days, den |-> 360].
calculateYearFrac(startDate, endDate) ==
    LET \* if (startDate > endDate) [startDate, endDate] = [endDate, startDate]
        s == IF startDate > endDate THEN endDate ELSE startDate
        e == IF startDate > endDate THEN startDate ELSE endDate
        startYear  == getFullYear(s)
        startMonth == getMonth(s) + 1
        startDay0  == getDate(s)
        endYear    == getFullYear(e)
        endMonth   == getMonth(e) + 1
        endDay0    == getDate(e)
        \* if (startDay === 31) startDay = 30
        startDay   == IF startDay0 = 31 THEN 30 ELSE startDay0
        \* if (endDay === 31 && startDay >= 30) endDay = 30
        endDay     == IF endDay0 = 31 /\ startDay >= 30 THEN 30 ELSE endDay0
        days       == ((endYear - startYear) * 360)
                      + ((endMonth - startMonth) * 30)
                      + (endDay - startDay)
    IN  [num |-> days, den |-> 360]

\* x >= y for two fractions with positive denominators.
FracGeq(x, y) == x.num * y.den >= y.num * x.den

One == [num |-> 1, den |-> 1]
OneTwelfth == [num |-> 1, den |-> 12]

(***************************************************************************)
(* dateUtils: findClosestDate                                              *)
(***************************************************************************)
Abs(x) == IF x < 0 THEN -x ELSE x

\* The loop for (let i = 1; i < dates.length; i++), from index i (one-based
\* here) with the running closestDate and minDifference.
RECURSIVE ClosestScan(_, _, _, _, _)
ClosestScan(targetDate, dates, i, closestDate, minDifference) ==
    IF i > Len(dates) THEN closestDate
    ELSE LET currentDate == dates[i]
             difference  == Abs(currentDate - targetDate)
         IN  IF difference < minDifference
             THEN ClosestScan(targetDate, dates, i + 1, currentDate, difference)
             ELSE ClosestScan(targetDate, dates, i + 1, closestDate, minDifference)

\* The same loop with <= in place of <: the last minimum wins.
RECURSIVE ClosestScanLastWins(_, _, _, _, _)
ClosestScanLastWins(targetDate, dates, i, closestDate, minDifference) ==
    IF i > Len(dates) THEN closestDate
    ELSE LET currentDate == dates[i]
             difference  == Abs(currentDate - targetDate)
         IN  IF difference <= minDifference
             THEN ClosestScanLastWins(targetDate, dates, i + 1, currentDate, difference)
             ELSE ClosestScanLastWins(targetDate, dates, i + 1, closestDate, minDifference)

\* Mutant: ties go to the last candidate of the list.
findClosestDateLastWins(targetDate, dates) ==
    IF Len(dates) = 0 THEN Null
    ELSE Some(ClosestScanLastWins(targetDate, dates, 2, dates[1],
                                  Abs(dates[1] - targetDate)))

\* Date | null: Null for an empty list, else Some(the closest date).
findClosestDate(targetDate, dates) ==
    IF Len(dates) = 0 THEN Null
    ELSE Some(ClosestScan(targetDate, dates, 2, dates[1],
                          Abs(dates[1] - targetDate)))

(***************************************************************************)
(* dateUtils: calculateStartDate                                           *)
(***************************************************************************)
Periods == {"1m", "3m", "ytd", "1y", "3y", "5y", "10y", "15y", "20y", "si", "custom"}

\* The switch of calculateStartDate on startDate = new Date(endDate), with
\* y = endDate.getFullYear(), m = endDate.getMonth(), d = endDate.getDate():
\* one setMonth / setFullYear / setDate on the copy; any other period returns
\* new Date(0).
StartDateSwitch(period, y, m, d) ==
    CASE period = "1m"  -> MakeDay(y, m - 1, d)
      [] period = "3m"  -> MakeDay(y, m - 3, d)
      [] period = "ytd" ->
            LET january == MakeDay(y, 0, d)     \* startDate.setMonth(0)
            IN  MakeDay(getFullYear(january), getMonth(january), 1)
      [] period = "1y"  -> MakeDay(y - 1, m, d)
      [] period = "3y"  -> MakeDay(y - 3, m, d)
      [] period = "5y"  -> MakeDay(y - 5, m, d)
      [] period = "10y" -> MakeDay(y - 10, m, d)
      [] period = "15y" -> MakeDay(y - 15, m, d)
      [] period = "20y" -> MakeDay(y - 20, m, d)
      [] OTHER          -> 0

\* Mutant: the offset is added to endDate instead of subtracted.
calculateStartDateForward(period, endDate) ==
    endDate + (endDate - StartDateSwitch(period, getFullYear(endDate),
                                         getMonth(endDate), getDate(endDate)))

calculateStartDate(period, endDate) ==
    StartDateSwitch(period, getFullYear(endDate), getMonth(endDate), getDate(endDate))

(***************************************************************************)
(* JavaScript numbers of the return computation.  A finite result is kept  *)
(* exactly as ratio ^ exponent - 1 with ratio and exponent fractions; a    *)
(* division by zero gives Infinity or NaN as IEEE 754 does.  Sample values *)
(* are non-negative integers.                                              *)
(***************************************************************************)
JsInfinity == [kind |-> "Infinity"]
JsNaN == [kind |-> "NaN"]
JsFinite(ratio, exponent) == [kind |-> "finite", ratio |-> ratio, exponent |-> exponent]

\* Math.pow(endValue / startValue, exponent) - 1, for an exponent > 0.
PowMinusOne(endValue, startValue, exponent) ==
    IF startValue = 0
    THEN IF endValue = 0 THEN JsNaN          \* 0 / 0 is NaN
         ELSE JsInfinity                     \* x / 0 is Infinity for x > 0
    ELSE JsFinite([num |-> endValue, den |-> startValue], exponent)

(***************************************************************************)
(* dataProcessor: processData                                              *)
(***************************************************************************)
\* The result returned when there is nothing to show.
EmptyResult ==
    [threw |-> FALSE,
     filteredData |-> <<>>,
     startDate |-> Null, endDate |-> Null,
     startValue |-> Null, endValue |-> Null,
     returnValue |-> Null,
     isAnnualized |-> FALSE,
     inceptionStartDate |-> Null, inceptionStartValue |-> Null]

\* The outcome of a call that ends in a TypeError: nothing is returned.
ThrowTypeError == [EmptyResult EXCEPT !.threw = TRUE]

\* item inserted into the sorted sequence s after every element that does
\* not compare greater: a.date - b.date decides, equal dates keep their order.
RECURSIVE InsertByDate(_, _)
InsertByDate(s, item) ==
    IF s = <<>> THEN <<item>>
    ELSE IF s[Len(s)].date - item.date <= 0 THEN Append(s, item)
    ELSE Append(InsertByDate(SubSeq(s, 1, Len(s) - 1), item), s[Len(s)])

\* [...data].sort((a, b) => a.date.getTime() - b.date.getTime()): a stable
\* sort of a copy.
RECURSIVE SortByDate(_)
SortByDate(data) ==
    IF data = <<>> THEN <<>>
    ELSE InsertByDate(SortByDate(SubSeq(data, 1, Len(data) - 1)), data[Len(data)])

\* Mutant: a sort that leaves samples of equal date in reverse input order.
SpreadSortTiesReversed(data) ==
    [sorted |-> SortByDate([i \in 1..Len(data) |-> data[Len(data) + 1 - i]]),
     operand |-> data]

\* Mutant: data.sort(...) sorts the caller's array itself.
SpreadSortInPlace(data) == [sorted |-> SortByDate(data), operand |-> SortByDate(data)]

\* [...data].sort(...): sorted is the value of the expression, a new array;
\* operand is what the array data holds once the expression is evaluated.
SpreadSort(data) == [sorted |-> SortByDate(data), operand |-> data]

\* Mutant: the search runs from the oldest sample (no reverse()).
LatestDataFirstUsable(sortedData) ==
    LET usable == {i \in 1..Len(sortedData) : sortedData[i].date <= today}
    IN  IF usable = {} THEN Null
        ELSE Some(sortedData[CHOOSE i \in usable : \A j \in usable : i <= j])

\* Mutant: the newest sample is taken whatever the clock says.
LatestDataIgnoresClock(sortedData) ==
    IF sortedData = <<>> THEN Null ELSE Some(sortedData[Len(sortedData)])

\* [...sortedData].reverse().find(item => item.date <= today): Null when no
\* item qualifies.
LatestData(sortedData) ==
    LET usable == {i \in 1..Len(sortedData) : sortedData[i].date <= today}
    IN  IF usable = {} THEN Null
        ELSE Some(sortedData[CHOOSE i \in usable : \A j \in usable : j <= i])

AnnualizedPeriods == {"1y", "3y", "5y", "10y", "15y", "20y", "si"}

\* Mutant: a custom period is annualized on the requested dates.
IsAnnualizedOnRequestedDates(selectedPeriod, dates) ==
    IF selectedPeriod = "custom"
    THEN FracGeq(calculateYearFrac(dates.targetStartDate, dates.endDate), One)
    ELSE selectedPeriod \in AnnualizedPeriods

\* Mutant: every period is annualized iff it resolves to a year or more.
IsAnnualizedByLength(selectedPeriod, dates) ==
    FracGeq(calculateYearFrac(dates.closestStartDate, dates.closestEndDate), One)

\* Step 7; dates holds the local variables targetStartDate, endDate,
\* closestStartDate and closestEndDate.
IsAnnualized(selectedPeriod, dates) ==
    IF selectedPeriod = "custom"
    THEN FracGeq(calculateYearFrac(dates.closestStartDate, dates.closestEndDate), One)
    ELSE selectedPeriod \in AnnualizedPeriods

\* Mutant: the exponent is years, not 1 / years.
AnnualizedReturnNoThreshold(endValue, startValue, years) ==
    PowMinusOne(endValue, startValue, [num |-> years.den, den |-> years.num])

AnnualizedReturnExponentYears(endValue, startValue, years) ==
    IF FracGeq(years, OneTwelfth)
    THEN PowMinusOne(endValue, startValue, years)
    ELSE PowMinusOne(endValue, startValue, One)

\* The return of an annualized period: Math.pow(endValue / startValue,
\* 1 / years) - 1 from one month on, the simple return below.
AnnualizedReturn(endValue, startValue, years) ==
    IF FracGeq(years, OneTwelfth)
    THEN PowMinusOne(endValue, startValue, [num |-> years.den, den |-> years.num])
    ELSE PowMinusOne(endValue, startValue, One)

\* Steps 3 to 10 of processData, once a latest usable sample exists.
ProcessFrom(sortedData, latestData, selectedPeriod, customPeriod) ==
    LET useCustom == selectedPeriod = "custom" /\ customPeriod # Null
        endDate == IF useCustom THEN customPeriod[1].endDate ELSE latestData.date
        targetStartDate ==
            IF useCustom THEN customPeriod[1].startDate
            ELSE IF selectedPeriod = "si" THEN sortedData[1].date
            ELSE calculateStartDate(selectedPeriod, endDate)
        allDates == [i \in 1..Len(sortedData) |-> sortedData[i].date]
        closestStartDate == findClosestDate(targetStartDate, allDates)
        closestEndDate   == findClosestDate(endDate, allDates)
    IN  IF closestStartDate = Null \/ closestEndDate = Null THEN EmptyResult
        ELSE
        LET inRange(item) == /\ item.date >= closestStartDate[1]
                             /\ item.date <= closestEndDate[1]
            filteredData == SelectSeq(sortedData, inRange)
        IN  \* filteredData[0] is undefined when nothing is in range, and
            \* startDataPoint.value then throws a TypeError.
            IF filteredData = <<>> THEN ThrowTypeError
            ELSE
            LET startValue == filteredData[1].value
                endValue   == filteredData[Len(filteredData)].value
                isAnnualized ==
                    IsAnnualized(selectedPeriod,
                                 [targetStartDate  |-> targetStartDate,
                                  endDate          |-> endDate,
                                  closestStartDate |-> closestStartDate[1],
                                  closestEndDate   |-> closestEndDate[1]])
                years == calculateYearFrac(closestStartDate[1], closestEndDate[1])
                returnValue ==
                    IF isAnnualized
                    THEN AnnualizedReturn(endValue, startValue, years)
                    ELSE PowMinusOne(endValue, startValue, One)
            IN  [threw |-> FALSE,
                 filteredData |-> filteredData,
                 startDate |-> closestStartDate,
                 endDate |-> closestEndDate,
                 startValue |-> Some(startValue),
                 endValue |-> Some(endValue),
                 returnValue |-> Some(returnValue),
                 isAnnualized |-> isAnnualized,
                 inceptionStartDate |-> Some(sortedData[1].date),
                 inceptionStartValue |-> Some(sortedData[1].value)]

\* Mutant: a custom period is resolved without looking at the clock.
processDataCustomIgnoresClock(data, selectedPeriod, customPeriod) ==
    IF Len(data) = 0 THEN EmptyResult
    ELSE LET sortedData == SortByDate(data)
             latestData == LatestData(sortedData)
             useCustom  == selectedPeriod = "custom" /\ customPeriod # Null
         IN  IF latestData = Null /\ ~useCustom THEN EmptyResult
             ELSE ProcessFrom(sortedData,
                              IF latestData = Null THEN sortedData[1] ELSE latestData[1],
                              selectedPeriod, customPeriod)

\* processData(data, selectedPeriod, customPeriod); customPeriod is Null when
\* the optional argument is left out.  today is read from the wall clock.
processData(data, selectedPeriod, customPeriod) ==
    IF Len(data) = 0 THEN EmptyResult
    ELSE LET sortedData == SpreadSort(data).sorted
             latestData == LatestData(sortedData)
         IN  IF latestData = Null THEN EmptyResult
             ELSE ProcessFrom(sortedData, latestData[1], selectedPeriod, customPeriod)

\* What the caller's array data holds when processData has returned or
\* thrown: the first return comes before the sort, [...sortedData].reverse()
\* and filter work on arrays of their own.
dataAfterProcessData(data) ==
    IF Len(data) = 0 THEN data ELSE SpreadSort(data).operand

(***************************************************************************)
(* ChartDisplay.  The indexed value (point.value / baseline) * 100 is kept *)
(* as the exact fraction [num, den] with den the baseline; a baseline of 0 *)
(* gives NaN (0 / 0) or Infinity (x / 0).  Rounding of the floating-point  *)
(* division is not modelled.                                               *)
(***************************************************************************)
JsRatio(num, den) == [kind |-> "finite", num |-> num, den |-> den]

\* (value / selectedPeriodStartValue) * 100
IndexedValue(value, selectedPeriodStartValue) ==
    IF selectedPeriodStartValue = 0
    THEN IF value = 0 THEN JsNaN ELSE JsInfinity
    ELSE JsRatio(value * 100, selectedPeriodStartValue)

\* Math.floor(num / den) and Math.ceil(num / den) for den > 0.
Floor(num, den) == num \div den
Ceil(num, den) == -((-num) \div den)
Min2(a, b) == IF a <= b THEN a ELSE b
Max2(a, b) == IF a >= b THEN a ELSE b

\* The interval for range = rangeNum / den.
Interval(rangeNum, den) ==
    IF rangeNum <= 10 * den THEN 2
    ELSE IF rangeNum <= 50 * den THEN 5
    ELSE IF rangeNum <= 100 * den THEN 10
    ELSE Ceil(rangeNum, den * 10 * 10) * 10

\* minY, maxY and yAxisDomain for minIndexed = minNum / den and
\* maxIndexed = maxNum / den.
AxisBounds(minNum, maxNum, den, interval) ==
    <<JsRatio(Min2(Floor(minNum, den * interval) * interval, 100 - interval), 1),
      JsRatio(Max2(Ceil(maxNum, den * interval) * interval, 100 + interval), 1)>>

\* Steps 4 to 6.  Math.min and Math.max return NaN when an argument is NaN,
\* and every later step keeps NaN.  An Infinity comes with a NaN: with a
\* baseline of 0 the first indexed value is 0 / 0.
YAxisDomain(indexedValues) ==
    IF \E i \in 1..Len(indexedValues) : indexedValues[i].kind # "finite"
    THEN <<JsNaN, JsNaN>>
    ELSE LET nums == {indexedValues[i].num : i \in 1..Len(indexedValues)}
             minNum == CHOOSE n \in nums : \A k \in nums : n <= k
             maxNum == CHOOSE n \in nums : \A k \in nums : n >= k
             den == indexedValues[1].den
         IN  AxisBounds(minNum, maxNum, den, Interval(maxNum - minNum, den))

\* annualizedReturnSinceInception of one point.
ReturnSinceInception(point, inceptionStartDate, inceptionStartValue) ==
    LET yearsFromInception == calculateYearFrac(inceptionStartDate, point.date)
    IN  IF FracGeq(yearsFromInception, OneTwelfth)
        THEN PowMinusOne(point.value, inceptionStartValue,
                         [num |-> yearsFromInception.den, den |-> yearsFromInception.num])
        ELSE PowMinusOne(point.value, inceptionStartValue, One)

\* One element of chartData.
ChartPoint(point, selectedPeriodStartValue, inception) ==
    [date |-> point.date,
     value |-> IndexedValue(point.value, selectedPeriodStartValue),
     actualValue |-> point.value,
     indexedValue |-> IndexedValue(point.value, selectedPeriodStartValue),
     annualizedReturnSinceInception |->
         ReturnSinceInception(point, inception.date, inception.value)]

\* Mutant: the first sample of the dataset as it was uploaded.
ChartInceptionUnsorted(fullDataset) == fullDataset[1]

\* Step 2: sortedFullDataset[0].
ChartInception(fullDataset) == SpreadSort(fullDataset).sorted[1]

\* Step 3 on: the chart built from data, its baseline and the inception point.
ChartFrom(data, selectedPeriodStartValue, inception) ==
    LET chartData == [i \in 1..Len(data) |->
                         ChartPoint(data[i], selectedPeriodStartValue, inception)]
    IN  [kind |-> "chart",
         chartData |-> chartData,
         yAxisDomain |-> YAxisDomain([i \in 1..Len(data) |-> chartData[i].indexedValue]),
         inceptionStartDate |-> inception.date,
         inceptionStartValue |-> inception.value]

\* ChartDisplay({data, fullDataset}): a message when there is no data, the
\* chart otherwise.
ChartDisplay(data, fullDataset) ==
    IF Len(data) = 0 THEN [kind |-> "message"]
    ELSE ChartFrom(data, data[1].value, ChartInception(fullDataset))

\* What the array fullDataset holds when ChartDisplay has rendered.
fullDatasetAfterChartDisplay(data, fullDataset) ==
    IF Len(data) = 0 THEN fullDataset ELSE SpreadSort(fullDataset).operand

(***************************************************************************)
(* FileUpload: processExcelFile.  jsonData is the sequence of rows that    *)
(* sheet_to_json returns, the header row first; a row has the cells A and  *)
(* B.  A cell is undefined (no cell), a number, or a string; a string is   *)
(* modelled by what the code asks of it: whether it is empty, the Date     *)
(* that new Date(text) gives (Null for an Invalid Date) and the number     *)
(* that Number(text) gives (Null for NaN).                                 *)
(***************************************************************************)
UndefinedCell == [type |-> "undefined"]
NumberCell(n) == [type |-> "number", n |-> n]
StringCell(empty, date, number) ==
    [type |-> "string", empty |-> empty, date |-> date, number |-> number]

\* The truthiness of row[column]: undefined, 0 and "" are falsy.
Truthy(cell) ==
    CASE cell.type = "undefined" -> FALSE
      [] cell.type = "number"    -> cell.n # 0
      [] cell.type = "string"    -> ~cell.empty

\* Days from 1899-12-30, day 0 of Excel's serial dates, to 1970-01-01.
ExcelEpochOffset == 25569

\* The date of a cell of column A: an Excel serial number is converted by
\* new Date(Math.round((n - 25569) * 86400 * 1000)), a string by new Date.
\* Null is an Invalid Date.
ParseDate(cell) ==
    IF cell.type = "number" THEN Some(cell.n - ExcelEpochOffset) ELSE cell.date

\* Number(row[valueColumn]); Null is NaN.
ParseValue(cell) ==
    IF cell.type = "number" THEN Some(cell.n) ELSE cell.number

\* The three continue statements of the loop: the row is pushed when none
\* of them is taken.
KeepsRow(row) ==
    /\ Truthy(row.A) /\ Truthy(row.B)
    /\ ParseDate(row.A) # Null
    /\ ParseValue(row.B) # Null

\* The loop over the rows from index i on (the header is row 1).
RECURSIVE ProcessRows(_, _, _)
ProcessRows(jsonData, i, processedData) ==
    IF i > Len(jsonData) THEN processedData
    ELSE ProcessRows(jsonData, i + 1,
             IF KeepsRow(jsonData[i])
             THEN Append(processedData,
                         [date |-> ParseDate(jsonData[i].A)[1],
                          value |-> ParseValue(jsonData[i].B)[1]])
             ELSE processedData)

Rejected(message) == [accepted |-> FALSE, error |-> message]
Accepted(processedData) == [accepted |-> TRUE, data |-> processedData]

\* Mutant: a single valid row is enough.
CheckedDataOneRowEnough(processedData) ==
    IF Len(processedData) < 1
    THEN Rejected("The Excel file does not contain enough valid data points")
    ELSE Accepted(processedData)

\* The check on the sorted rows: fewer than 2 throw.
CheckedData(processedData) ==
    IF Len(processedData) < 2
    THEN Rejected("The Excel file does not contain enough valid data points")
    ELSE Accepted(processedData)

\* processExcelFile from jsonData on: the outcome is the array handed to
\* onDataUpload, or the message of the Error thrown.
ProcessJsonData(jsonData) ==
    IF Len(jsonData) < 2
    THEN Rejected("The Excel file does not contain enough data")
    ELSE IF ~Truthy(jsonData[1].A) \/ ~Truthy(jsonData[1].B)
    THEN Rejected("The Excel file must have date in column A and values in column B")
    ELSE CheckedData(SortByDate(ProcessRows(jsonData, 2, <<>>)))

(***************************************************************************)
(* Each function is specified as a pure function: Init draws its inputs    *)
(* from bounded sets and one action applies it.  The variables of the      *)
(* other functions stay at their idle values.                              *)
(***************************************************************************)
YfIdle == yfArgs = <<0, 0>> /\ yfRet = Null
CdIdle == cdArgs = <<0, <<>> >> /\ cdRet = Null
PdIdle ==
    /\ today = 0
    /\ pdArgs = [data |-> <<>>, selectedPeriod |-> "1y", customPeriod |-> Null]
    /\ pdRet = Null
    /\ pdAgain = Null
    /\ chart = Null
SdIdle == sdArgs = <<"1y", 0>> /\ sdRet = Null
IngIdle == ingArgs = <<>> /\ ingRet = Null
AppIdle == app = Null /\ upload = Null

\* All sequences over S of length at most n.
SeqUpTo(S, n) == UNION {[1..k -> S] : k \in 0..n}

(***************************************************************************)
(* Specification of calculateYearFrac.                                     *)
(***************************************************************************)
CalendarDates == MakeDay(2020, 0, 1) .. (MakeDay(2020, MaxMonths, 1) - 1)

InitYearFrac ==
    /\ yfArgs \in CalendarDates \X CalendarDates
    /\ yfRet = Null
    /\ CdIdle /\ PdIdle /\ SdIdle /\ IngIdle /\ AppIdle

CallYearFrac ==
    /\ yfRet = Null
    /\ yfRet' = Some(calculateYearFrac(yfArgs[1], yfArgs[2]))
    /\ UNCHANGED <<yfArgs, cdVars, pdVars, sdVars, ingVars, appVars>>

NextYearFrac == CallYearFrac

SpecYearFrac == InitYearFrac /\ [][NextYearFrac]_vars

(***************************************************************************)
(* Specification of findClosestDate.                                       *)
(***************************************************************************)
ClosestDays == DaysFromCivil(2015, 3, 30) .. (DaysFromCivil(2015, 3, 30) + MaxDay)

InitClosest ==
    /\ cdArgs \in ClosestDays \X SeqUpTo(ClosestDays, MaxDates)
    /\ cdRet = Null
    /\ YfIdle /\ PdIdle /\ SdIdle /\ IngIdle /\ AppIdle

CallFindClosestDate ==
    /\ cdRet = Null
    /\ cdRet' = Some(findClosestDate(cdArgs[1], cdArgs[2]))
    /\ UNCHANGED <<cdArgs, yfVars, pdVars, sdVars, ingVars, appVars>>

NextClosest == CallFindClosestDate

SpecClosest == InitClosest /\ [][NextClosest]_vars

(***************************************************************************)
(* Specification of processData.                                           *)
(***************************************************************************)
\* Sample dates: 11 months, 12 months and 1 month (30/360) apart.
SampleDates ==
    {DaysFromCivil(2020, 1, 31), DaysFromCivil(2020, 12, 31), DaysFromCivil(2021, 1, 31)}
SampleValues == {0, 1, 2}
Samples == [date : SampleDates, value : SampleValues]
\* Dates a caller asks for: before, on and after the sample dates.
CustomDates ==
    {DaysFromCivil(2020, 1, 1), DaysFromCivil(2020, 1, 31),
     DaysFromCivil(2021, 1, 31), DaysFromCivil(2021, 3, 1)}
CustomPeriods == [startDate : CustomDates, endDate : CustomDates]
\* The clock: between the first two sample dates, or after all of them.
Todays == {DaysFromCivil(2020, 6, 30), DaysFromCivil(2021, 3, 1)}

\* Two series beside the sample series: five years (30/360) of growth by
\* one tenth a year, from 1000.00 to 1610.51 counted in hundredths, and two
\* samples half a month apart.
FiveYearSeries ==
    <<[date |-> DaysFromCivil(2016, 1, 31), value |-> 100000],
      [date |-> DaysFromCivil(2021, 1, 31), value |-> 161051]>>
HalfMonthSeries ==
    <<[date |-> DaysFromCivil(2021, 1, 31), value |-> 1],
      [date |-> DaysFromCivil(2021, 2, 15), value |-> 2]>>
SeriesInputs == SeqUpTo(Samples, MaxLen) \cup {FiveYearSeries, HalfMonthSeries}

ProcessArgs ==
    [data : SeriesInputs,
     selectedPeriod : Periods \ {"custom"},
     customPeriod : {Null}]
    \cup
    [data : SeriesInputs,
     selectedPeriod : {"custom"},
     customPeriod : {Null} \cup {Some(c) : c \in CustomPeriods}]

InitProcess ==
    /\ today \in Todays
    /\ pdArgs \in ProcessArgs
    /\ pdRet = Null
    /\ pdAgain = Null
    /\ chart = Null
    /\ YfIdle /\ CdIdle /\ SdIdle /\ IngIdle /\ AppIdle

CallProcessData ==
    /\ pdRet = Null
    /\ pdRet' = Some(processData(pdArgs.data, pdArgs.selectedPeriod, pdArgs.customPeriod))
    /\ pdArgs' = [pdArgs EXCEPT !.data = dataAfterProcessData(pdArgs.data)]
    /\ UNCHANGED <<today, pdAgain, chart, yfVars, cdVars, sdVars, ingVars, appVars>>

NextProcess == CallProcessData

SpecProcess == InitProcess /\ [][NextProcess]_vars

(***************************************************************************)
(* Specification of two calls of processData with the same arguments: the  *)
(* effect of useDataProcessor runs again when a dependency changes and     *)
(* changes back, and the wall clock moves on in between.                   *)
(***************************************************************************)
\* Time passes between the two calls.
ClockAdvances ==
    /\ pdRet # Null /\ pdAgain = Null
    /\ today' \in {t \in Todays : t > today}
    /\ UNCHANGED <<pdArgs, pdRet, pdAgain, chart, yfVars, cdVars, sdVars, ingVars, appVars>>

CallProcessDataAgain ==
    /\ pdRet # Null /\ pdAgain = Null
    /\ pdAgain' = Some(processData(pdArgs.data, pdArgs.selectedPeriod, pdArgs.customPeriod))
    /\ pdArgs' = [pdArgs EXCEPT !.data = dataAfterProcessData(pdArgs.data)]
    /\ UNCHANGED <<today, pdRet, chart, yfVars, cdVars, sdVars, ingVars, appVars>>

NextRecall == CallProcessData \/ ClockAdvances \/ CallProcessDataAgain

SpecRecall == InitProcess /\ [][NextRecall]_vars

(***************************************************************************)
(* Specification of the chart: App hands the series to processData         *)
(* (through useDataProcessor) and then renders ChartDisplay with the       *)
(* filtered data of the result and the whole series.                       *)
(***************************************************************************)
\* A custom period that resolves to the newest sample alone.
ChartCustomPeriod ==
    [startDate |-> DaysFromCivil(2021, 1, 31), endDate |-> DaysFromCivil(2021, 3, 1)]

\* The five-year series is left to processData.
ChartArgs ==
    {a \in ProcessArgs : /\ a.customPeriod \in {Null, Some(ChartCustomPeriod)}
                         /\ a.data # FiveYearSeries}

InitChart ==
    /\ today \in Todays
    /\ pdArgs \in ChartArgs
    /\ pdRet = Null
    /\ pdAgain = Null
    /\ chart = Null
    /\ YfIdle /\ CdIdle /\ SdIdle /\ IngIdle /\ AppIdle

\* App renders ChartDisplay once data is loaded; a TypeError thrown by
\* processData leaves nothing to render.
RenderChart ==
    /\ pdRet # Null /\ ~pdRet[1].threw
    /\ Len(pdArgs.data) > 0
    /\ chart = Null
    /\ chart' = Some(ChartDisplay(pdRet[1].filteredData, pdArgs.data))
    /\ pdArgs' = [pdArgs EXCEPT
                     !.data = fullDatasetAfterChartDisplay(pdRet[1].filteredData, pdArgs.data)]
    /\ UNCHANGED <<today, pdRet, pdAgain, yfVars, cdVars, sdVars, ingVars, appVars>>

NextChart == CallProcessData \/ RenderChart

SpecChart == InitChart /\ [][NextChart]_vars

(***************************************************************************)
(* Specification of the row processing of processExcelFile.                *)
(***************************************************************************)
\* A text that is neither a date nor a number, such as "Date" or "n/a".
TextCell == StringCell(FALSE, Null, Null)
\* Column A: no cell, the serial numbers of 2020-01-31 and 2020-01-01, the
\* text "2020-12-31" and a text that is no date.
DateCells ==
    {UndefinedCell,
     NumberCell(DaysFromCivil(2020, 1, 31) + ExcelEpochOffset),
     NumberCell(DaysFromCivil(2020, 1, 1) + ExcelEpochOffset),
     StringCell(FALSE, Some(DaysFromCivil(2020, 12, 31)), Null),
     TextCell}
\* Column B: no cell, the numbers 0 and 5, the text "0" and a text that is
\* no number.
ValueCells ==
    {UndefinedCell, NumberCell(0), NumberCell(5),
     StringCell(FALSE, Null, Some(0)), TextCell}
DataRows == [A : DateCells, B : ValueCells]
\* A header with both titles, and one with the title of column B missing.
HeaderRows == {[A |-> TextCell, B |-> TextCell], [A |-> TextCell, B |-> UndefinedCell]}
SheetsUpTo(maxRows) ==
    {<<>>} \cup {<<h>> \o rows : h \in HeaderRows, rows \in SeqUpTo(DataRows, maxRows)}

InitIngest ==
    /\ ingArgs \in SheetsUpTo(MaxRows)
    /\ ingRet = Null
    /\ YfIdle /\ CdIdle /\ PdIdle /\ SdIdle /\ AppIdle

CallProcessJsonData ==
    /\ ingRet = Null
    /\ ingRet' = Some(ProcessJsonData(ingArgs))
    /\ UNCHANGED <<ingArgs, yfVars, cdVars, pdVars, sdVars, appVars>>

NextIngest == CallProcessJsonData

SpecIngest == InitIngest /\ [][NextIngest]_vars

(***************************************************************************)
(* Specification of calculateStartDate: every period on every end date of  *)
(* the calendar range.                                                     *)
(***************************************************************************)
InitStartDate ==
    /\ sdArgs \in Periods \X CalendarDates
    /\ sdRet = Null
    /\ YfIdle /\ CdIdle /\ PdIdle /\ IngIdle /\ AppIdle

CallCalculateStartDate ==
    /\ sdRet = Null
    /\ sdRet' = Some(calculateStartDate(sdArgs[1], sdArgs[2]))
    /\ UNCHANGED <<sdArgs, yfVars, cdVars, pdVars, ingVars, appVars>>

NextStartDate == CallCalculateStartDate

SpecStartDate == InitStartDate /\ [][NextStartDate]_vars

(***************************************************************************)
(* Specification of the application: FileUpload reads files, App holds     *)
(* data, selectedPeriod and customPeriod, PeriodSelector changes the last  *)
(* two, and the effect of useDataProcessor recomputes the result.          *)
(***************************************************************************)
SerialOf(y, m, d) == NumberCell(DaysFromCivil(y, m, d) + ExcelEpochOffset)
TitleRow == [A |-> TextCell, B |-> TextCell]

\* Eleven months of data, the rows out of date order.
FileShort ==
    [name |-> "short.xlsx", corrupt |-> FALSE,
     jsonData |-> <<TitleRow,
                    [A |-> SerialOf(2020, 12, 31), B |-> NumberCell(2)],
                    [A |-> SerialOf(2020, 1, 31), B |-> NumberCell(1)]>>]
\* Twelve months of data and a row with the value 0.
FileLong ==
    [name |-> "long.xlsx", corrupt |-> FALSE,
     jsonData |-> <<TitleRow,
                    [A |-> SerialOf(2020, 1, 31), B |-> NumberCell(1)],
                    [A |-> SerialOf(2020, 12, 31), B |-> NumberCell(0)],
                    [A |-> SerialOf(2021, 1, 31), B |-> NumberCell(2)]>>]
\* One valid row and one without a date.
FileBad ==
    [name |-> "bad.xlsx", corrupt |-> FALSE,
     jsonData |-> <<TitleRow,
                    [A |-> SerialOf(2020, 1, 31), B |-> NumberCell(1)],
                    [A |-> TextCell, B |-> NumberCell(5)]>>]
\* A file that read() cannot parse.
FileCorrupt == [name |-> "corrupt.xlsx", corrupt |-> TRUE, jsonData |-> <<>>]
Files == {FileShort, FileLong, FileBad, FileCorrupt}

\* processExcelFile after the await: read() throws on a corrupt file.
ProcessFile(file) ==
    IF file.corrupt THEN Rejected("File is corrupted")
    ELSE ProcessJsonData(file.jsonData)

\* The periods chosen and the dates typed in this specification.
AppPeriods == {"1y", "si", "custom"}
AppDates == {DaysFromCivil(2020, 1, 31), DaysFromCivil(2021, 1, 31)}

\* useState initial values of App, useDataProcessor and FileUpload; the
\* effect of useDataProcessor is pending after the first render.  started
\* lists the files in the order their uploads began, reading holds the
\* indices of those whose arrayBuffer() is not yet resolved, delivered the
\* indices handed to onDataUpload, in order.
InitApp ==
    /\ today \in Todays
    /\ app = [data |-> <<>>,
              selectedPeriod |-> "1y",
              customPeriod |-> [startDate |-> today, endDate |-> today],
              processedResult |-> EmptyResult,
              effectPending |-> TRUE,
              crashed |-> FALSE]
    /\ upload = [fileName |-> Null, error |-> Null, success |-> FALSE,
                 started |-> <<>>, reading |-> {}, delivered |-> <<>>]
    /\ pdArgs = [data |-> <<>>, selectedPeriod |-> "1y", customPeriod |-> Null]
    /\ pdRet = Null /\ pdAgain = Null /\ chart = Null
    /\ YfIdle /\ CdIdle /\ SdIdle /\ IngIdle

\* handleFileChange / handleDrop: processExcelFile up to its await.
StartUpload(file) ==
    /\ ~app.crashed
    /\ Len(upload.started) < MaxUploads
    /\ upload' = [upload EXCEPT !.error = Null,
                                !.success = FALSE,
                                !.started = Append(@, file),
                                !.reading = @ \cup {Len(upload.started) + 1}]
    /\ UNCHANGED <<app, pdVars, yfVars, cdVars, sdVars, ingVars>>

\* handleDataUpload(uploadedData)
handleDataUpload(a, uploadedData) ==
    [a EXCEPT !.data = uploadedData,
              !.customPeriod =
                  IF Len(uploadedData) > 0
                  THEN [startDate |-> uploadedData[1].date,
                        endDate |-> uploadedData[Len(uploadedData)].date]
                  ELSE @,
              !.effectPending = TRUE]

\* The rest of processExcelFile, from the resolution of arrayBuffer() on,
\* for the upload started as number id.
FinishUpload(id) ==
    /\ ~app.crashed
    /\ id \in upload.reading
    /\ LET file == upload.started[id]
           outcome == ProcessFile(file)
       IN  IF outcome.accepted
           THEN /\ upload' = [upload EXCEPT !.success = TRUE,
                                            !.fileName = Some(file.name),
                                            !.reading = @ \ {id},
                                            !.delivered = Append(@, id)]
                /\ app' = handleDataUpload(app, outcome.data)
           ELSE /\ upload' = [upload EXCEPT !.error = Some(outcome.error),
                                            !.success = FALSE,
                                            !.reading = @ \ {id}]
                /\ app' = app
    /\ UNCHANGED <<pdVars, yfVars, cdVars, sdVars, ingVars>>

\* handlePeriodChange(period); PeriodSelector is rendered once data is
\* loaded.  Setting the state to the value it has schedules nothing.
SelectPeriod(period) ==
    /\ ~app.crashed
    /\ Len(app.data) > 0
    /\ app' = [app EXCEPT !.selectedPeriod = period,
                          !.effectPending = @ \/ period # app.selectedPeriod]
    /\ UNCHANGED <<upload, pdVars, yfVars, cdVars, sdVars, ingVars>>

\* handleCustomDateChange(type, value) and handleCustomPeriodChange: the
\* date inputs are shown while the custom period is selected; the new
\* object always counts as a change.
EditCustomDate(type, date) ==
    /\ ~app.crashed
    /\ Len(app.data) > 0
    /\ app.selectedPeriod = "custom"
    /\ app' = [app EXCEPT !.customPeriod =
                              IF type = "start" THEN [@ EXCEPT !.startDate = date]
                              ELSE [@ EXCEPT !.endDate = date],
                          !.effectPending = TRUE]
    /\ UNCHANGED <<upload, pdVars, yfVars, cdVars, sdVars, ingVars>>

\* The effect of useDataProcessor: setProcessedResult(processData(...)).
\* A TypeError thrown by processData is caught by nothing and React
\* unmounts the application.
RunEffect ==
    /\ ~app.crashed
    /\ app.effectPending
    /\ LET result == processData(app.data, app.selectedPeriod, Some(app.customPeriod))
       IN  app' = IF result.threw
                  THEN [app EXCEPT !.crashed = TRUE, !.effectPending = FALSE]
                  ELSE [app EXCEPT !.processedResult = result,
                                   !.data = dataAfterProcessData(app.data),
                                   !.effectPending = FALSE]
    /\ UNCHANGED <<upload, pdVars, yfVars, cdVars, sdVars, ingVars>>

NextApp ==
    \/ \E file \in Files : StartUpload(file)
    \/ \E id \in 1..MaxUploads : FinishUpload(id)
    \/ \E period \in AppPeriods : SelectPeriod(period)
    \/ \E type \in {"start", "end"}, date \in AppDates : EditCustomDate(type, date)
    \/ RunEffect

SpecApp == InitApp /\ [][NextApp]_vars

(***************************************************************************)
(* Claims about calculateYearFrac (checked under SpecYearFrac).            *)
(***************************************************************************)
YfDone == yfRet # Null
YfResult == yfRet[1]
\* The two arguments in time order, as civil dates.
YfFirst == CivilFromDays(IF yfArgs[1] > yfArgs[2] THEN yfArgs[2] ELSE yfArgs[1])
YfLast == CivilFromDays(IF yfArgs[1] > yfArgs[2] THEN yfArgs[1] ELSE yfArgs[2])

\* 360 * (years apart) + 30 * (months apart) + (ed - sd) of two civil dates.
Days360(f, l, sd, ed) ==
    (l.year - f.year) * 360 + (l.month - f.month) * 30 + (ed - sd)

\* The 30/360 day count as the specification words it, on the ordered dates.
SpecTotalDays(f, l) ==
    LET sd == IF f.day = 31 THEN 30 ELSE f.day
        ed == IF l.day = 31 /\ sd >= 30 THEN 30 ELSE l.day
    IN  Days360(f, l, sd, ed)

\* C1: for every pair of dates calculateYearFrac is totalDays / 360, with
\* totalDays the 30/360 count of the ordered dates (start day 31 -> 30, then
\* end day 31 -> 30 only if the adjusted start day is >= 30); two dates on the
\* 31st of the same month N years apart give exactly N.
C1_YearFracFormula ==
    YfDone =>
        LET f == YfFirst
            l == YfLast
            r == YfResult
        IN  /\ r.den = 360
            /\ r.num = SpecTotalDays(f, l)
            /\ (f.day = 31 /\ l.day = 31 /\ f.month = l.month)
                  => r.num = (l.year - f.year) * r.den

\* C1 witness: both dates on a 31st of the same month, one year apart, and
\* the computed fraction is exactly 1.
C1_Witness ==
    /\ YfDone
    /\ YfResult = [num |-> 360, den |-> 360]
    /\ LET f == YfFirst
           l == YfLast
       IN  /\ f.day = 31 /\ l.day = 31
           /\ f.month = l.month
           /\ l.year = f.year + 1

\* TRUE iff the civil date c is the last day of a February.
IsLastOfFebruary(c) ==
    c.month = 2 /\ CivilFromDays(DaysFromCivil(c.year, c.month, c.day) + 1).month = 3

\* Day count of the spreadsheet function YEARFRAC(start, end, 0) (US 30/360
\* NASD), which also adjusts a start date on the last day of February.
ExcelBasis0Days(f, l) ==
    LET adj == IF f.day = 31 /\ l.day = 31 THEN <<30, 30>>
               ELSE IF f.day = 31 THEN <<30, l.day>>
               ELSE IF f.day = 30 /\ l.day = 31 THEN <<30, 30>>
               ELSE IF IsLastOfFebruary(f) /\ IsLastOfFebruary(l) THEN <<30, 30>>
               ELSE IF IsLastOfFebruary(f) THEN <<30, l.day>>
               ELSE <<f.day, l.day>>
    IN  Days360(f, l, adj[1], adj[2])

\* C8: calculateYearFrac returns the day count of the spreadsheet function
\* YEARFRAC with basis 0 for every pair of dates, also when the start or the
\* end is the last day of February.
C8_MatchesExcelYearFrac ==
    YfDone =>
        /\ YfResult.den = 360
        /\ YfResult.num = ExcelBasis0Days(YfFirst, YfLast)

IsFeb28or29(c) == c.month = 2 /\ c.day \in {28, 29}

C10_Symmetric ==
    YfDone =>
        /\ YfResult = calculateYearFrac(yfArgs[2], yfArgs[1])
        /\ YfResult.num >= 0 /\ YfResult.den > 0

\* C10 witness: a call whose first argument is the later date, with a
\* positive result.
C10_Witness ==
    /\ YfDone
    /\ yfArgs[1] > yfArgs[2]
    /\ YfResult.num > 0

\* The calendar helpers agree with the civil calendar: conversion round trip
\* and month lengths.
CalendarSanity ==
    /\ DaysFromCivil(1970, 1, 1) = 0
    /\ \A t \in {yfArgs[1], yfArgs[2]} :
          LET c == CivilFromDays(t)
              leap == (c.year % 4 = 0 /\ c.year % 100 # 0) \/ c.year % 400 = 0
              len == IF c.month = 2 THEN (IF leap THEN 29 ELSE 28)
                     ELSE IF c.month \in {4, 6, 9, 11} THEN 30 ELSE 31
          IN  /\ DaysFromCivil(c.year, c.month, c.day) = t
              /\ c.month \in 1..12 /\ c.day \in 1..len
              /\ MakeDay(c.year, c.month - 1, c.day) = t

(***************************************************************************)
(* Claims about findClosestDate (checked under SpecClosest).               *)
(***************************************************************************)
CdDone == cdRet # Null

\* C7: findClosestDate returns null only for an empty list; otherwise it
\* returns the list member at the first index whose absolute difference to
\* the target is minimal over the list.
C7_ClosestFirstMinimum ==
    CdDone =>
        LET target == cdArgs[1]
            dates  == cdArgs[2]
            ret    == cdRet[1]
        IN  /\ (ret = Null) <=> (dates = <<>>)
            /\ dates # <<>> =>
                  \E i \in 1..Len(dates) :
                      /\ ret = Some(dates[i])
                      /\ \A j \in 1..Len(dates) :
                            Abs(dates[i] - target) <= Abs(dates[j] - target)
                      /\ \A j \in 1..(i - 1) :
                            Abs(dates[j] - target) > Abs(dates[i] - target)

\* C7 witness: two different candidates are equally close to the target, the
\* later date comes first in the list, and the first one is returned.
C7_Witness ==
    /\ CdDone
    /\ Len(cdArgs[2]) = 2
    /\ cdArgs[2][1] = cdArgs[1] + 1
    /\ cdArgs[2][2] = cdArgs[1] - 1
    /\ cdRet[1] = Some(cdArgs[2][1])

(***************************************************************************)
(* Claims about processData (checked under SpecProcess).                   *)
(***************************************************************************)
PdDone == pdRet # Null
PdResult == pdRet[1]
\* The call returned a result with data in it.
PdNonEmpty == PdDone /\ ~PdResult.threw /\ PdResult.filteredData # <<>>
\* Some sample of the series is dated at or before today.
HasUsableSample == \E i \in 1..Len(pdArgs.data) : pdArgs.data[i].date <= today
IsCustomCall == pdArgs.selectedPeriod = "custom" /\ pdArgs.customPeriod # Null

\* C2: whenever the resolved startValue is 0, processData signals an error to
\* its caller and never returns a result whose returnValue is Infinity or NaN.
C2_ZeroStartValueIsError ==
    PdDone =>
        LET r == PdResult
        IN  /\ ~(~r.threw /\ r.startValue = Some(0))
            /\ (~r.threw /\ r.returnValue # Null) =>
                  r.returnValue[1].kind \notin {"Infinity", "NaN"}

\* C3: for every non-empty series with a sample dated <= today and every
\* period (presets, and custom pairs also with start later than end), the
\* filtered series is non-empty, starts at closestStart and ends at
\* closestEnd.
C3_FilteredSeriesNonEmpty ==
    (PdDone /\ pdArgs.data # <<>> /\ HasUsableSample) =>
        LET r == PdResult
        IN  /\ ~r.threw
            /\ r.filteredData # <<>>
            /\ r.startDate = Some(r.filteredData[1].date)
            /\ r.endDate = Some(r.filteredData[Len(r.filteredData)].date)

\* C4: if the series is empty or no sample is dated at or before today,
\* processData returns the empty result (empty filteredData, every value
\* null, isAnnualized false) for every period, and does not throw.
C4_EmptyResult ==
    (PdDone /\ ~HasUsableSample) =>
        LET r == PdResult
        IN  /\ ~r.threw
            /\ r.filteredData = <<>>
            /\ r.startDate = Null /\ r.endDate = Null
            /\ r.startValue = Null /\ r.endValue = Null
            /\ r.returnValue = Null
            /\ r.inceptionStartDate = Null /\ r.inceptionStartValue = Null
            /\ r.isAnnualized = FALSE

\* C4 witness: a custom call on a non-empty series whose samples are all
\* dated after today has returned the empty result.
C4_Witness ==
    /\ PdDone
    /\ pdArgs.data # <<>> /\ ~HasUsableSample
    /\ IsCustomCall
    /\ PdResult = EmptyResult

\* 30/360 day count between two time values, as the specification words it.
SpecDays(a, b) ==
    SpecTotalDays(CivilFromDays(IF a > b THEN b ELSE a),
                  CivilFromDays(IF a > b THEN a ELSE b))

\* C5: for a custom period isAnnualized is true iff the year fraction of the
\* resolved sample dates (the result's startDate and endDate, not the
\* requested dates) is >= 1: a resolved span of 11 months (330 days) is not
\* annualized, one of 12 months (360 days) is.
C5_CustomAnnualizedIffYearOrMore ==
    (PdNonEmpty /\ pdArgs.selectedPeriod = "custom") =>
        LET r == PdResult
            days == SpecDays(r.startDate[1], r.endDate[1])
        IN  /\ r.isAnnualized <=> (days >= 360)
            /\ days = 330 => ~r.isAnnualized
            /\ days = 360 => r.isAnnualized

\* C5 witness: the requested dates are more than a year apart, the resolved
\* dates are exactly 11 months apart, and the result is not annualized.
C5_Witness ==
    /\ PdNonEmpty /\ IsCustomCall
    /\ SpecDays(pdArgs.customPeriod[1].startDate, pdArgs.customPeriod[1].endDate) >= 360
    /\ pdArgs.customPeriod[1].startDate < pdArgs.customPeriod[1].endDate
    /\ SpecDays(PdResult.startDate[1], PdResult.endDate[1]) = 330
    /\ PdResult.returnValue[1].kind = "finite"
    /\ ~PdResult.isAnnualized

UsableDates == {pdArgs.data[i].date : i \in {j \in 1..Len(pdArgs.data) : pdArgs.data[j].date <= today}}
LatestUsableDate == CHOOSE d \in UsableDates : \A e \in UsableDates : e <= d

\* C11: for every period other than a custom one and every series with a
\* sample dated <= today, the result's endDate is the date of the latest
\* sample dated <= today and no sample of filteredData is dated after today.
C11_PresetEndsAtLatestUsable ==
    (PdDone /\ ~IsCustomCall /\ HasUsableSample) =>
        LET r == PdResult
        IN  /\ ~r.threw
            /\ r.endDate = Some(LatestUsableDate)
            /\ \A i \in 1..Len(r.filteredData) : r.filteredData[i].date <= today

\* C11 witness: a preset call on a series holding samples before and after
\* today ended at the latest sample before today.
C11_Witness ==
    /\ PdNonEmpty /\ pdArgs.selectedPeriod = "1y"
    /\ \E i \in 1..Len(pdArgs.data) : pdArgs.data[i].date > today
    /\ PdResult.endDate = Some(LatestUsableDate)
    /\ PdResult.endDate[1] < today

\* The dates of all samples of the series.
SeriesDates == {pdArgs.data[i].date : i \in 1..Len(pdArgs.data)}
\* d is the series date closest to target, the earlier one on a tie.
IsClosestSeriesDate(d, target) ==
    /\ d \in SeriesDates
    /\ \A e \in SeriesDates :
          \/ Abs(d - target) < Abs(e - target)
          \/ Abs(d - target) = Abs(e - target) /\ d <= e

\* C12: for a custom period on a series with a sample dated <= today the
\* requested dates are used as given, without clamping to today: the call
\* returns a result whose startDate and endDate are the series dates closest
\* to the requested start and end, and a requested end later than every
\* sample resolves to the last sample, also when that one is after today.
C12_CustomDatesVerbatim ==
    (PdDone /\ IsCustomCall /\ HasUsableSample) =>
        LET r == PdResult
            c == pdArgs.customPeriod[1]
        IN  /\ ~r.threw
            /\ r.startDate # Null /\ IsClosestSeriesDate(r.startDate[1], c.startDate)
            /\ r.endDate # Null /\ IsClosestSeriesDate(r.endDate[1], c.endDate)
            /\ (\A e \in SeriesDates : e < c.endDate) =>
                  \A e \in SeriesDates : e <= r.endDate[1]

\* The samples of the series.
SeriesSamples == {pdArgs.data[i] : i \in 1..Len(pdArgs.data)}
\* How many times the sample x occurs in the sequence s.
CountIn(s, x) == Cardinality({i \in 1..Len(s) : s[i] = x})
\* How many times x occurs among the samples of the series dated <= today.
CountUsable(x) == IF x.date <= today THEN CountIn(pdArgs.data, x) ELSE 0

\* C13: for the si preset on a series with a sample dated <= today, startDate
\* is the earliest date of the whole series, endDate is the date of the
\* latest sample dated <= today, and filteredData holds exactly the samples
\* dated <= today, in date order.
C13_SinceInceptionSpansUsable ==
    (PdDone /\ pdArgs.selectedPeriod = "si" /\ HasUsableSample) =>
        LET r == PdResult
            f == r.filteredData
        IN  /\ ~r.threw
            /\ r.startDate # Null /\ r.startDate[1] \in SeriesDates
            /\ \A e \in SeriesDates : r.startDate[1] <= e
            /\ r.endDate = Some(LatestUsableDate)
            /\ \A x \in SeriesSamples \cup {f[i] : i \in 1..Len(f)} :
                  CountIn(f, x) = CountUsable(x)
            /\ \A i \in 1..(Len(f) - 1) : f[i].date <= f[i + 1].date

\* C13 witness: an si call on a series given out of date order, with one
\* sample after today, returned the two samples dated <= today.
C13_Witness ==
    /\ PdNonEmpty /\ pdArgs.selectedPeriod = "si"
    /\ Len(pdArgs.data) = 3 /\ Len(PdResult.filteredData) = 2
    /\ pdArgs.data[1].date > today
    /\ PdResult.startDate = PdResult.endDate

\* C17: for every period, preset or custom, a non-empty result is annualized
\* exactly when the resolved period from startDate to endDate is at least one
\* year (360 days of the 30/360 count) long.
C17_AnnualizedIffYearOrMore ==
    PdNonEmpty =>
        (PdResult.isAnnualized <=>
            SpecDays(PdResult.startDate[1], PdResult.endDate[1]) >= 360)

\* The JavaScript number r is Math.pow(endValue / startValue, 360 / days) - 1
\* (days > 0): Infinity or NaN on a division by 0, and else the power of the
\* same division to the same exponent, which does not count when the ratio
\* is 0 or 1.
IsPowMinusOne(r, endValue, startValue, days) ==
    IF startValue = 0 THEN r.kind = (IF endValue = 0 THEN "NaN" ELSE "Infinity")
    ELSE /\ r.kind = "finite"
         /\ r.ratio = [num |-> endValue, den |-> startValue]
         /\ \/ endValue = 0
            \/ endValue = startValue
            \/ r.exponent.num * days = 360 * r.exponent.den

\* The JavaScript number r is p / q: r + 1 = (p + q) / q is the k-th root of
\* the ratio (p + q)^k / q^k, 1 / k being the exponent.
IsExactly(r, p, q, k) ==
    /\ r.kind = "finite"
    /\ r.exponent.den = k * r.exponent.num
    /\ r.ratio.num = (p + q)^k
    /\ r.ratio.den = q^k

\* The result is annualized over a span of days (30/360) days.
AnnualizedOver(days) ==
    /\ PdNonEmpty /\ PdResult.isAnnualized
    /\ SpecDays(PdResult.startDate[1], PdResult.endDate[1]) = days

C14_EqualInputsEqualResults ==
    (pdRet # Null /\ pdAgain # Null) => pdAgain = pdRet

(***************************************************************************)
(* Claims about processData followed by ChartDisplay (checked under        *)
(* SpecChart).                                                             *)
(***************************************************************************)
ChartDone == chart # Null
ChartDrawn == ChartDone /\ chart[1].kind = "chart"

\* C15: neither processData nor ChartDisplay modifies the caller's series:
\* every step of either, for every period and also on the paths that return
\* the empty result or the message, leaves the array with the same samples
\* in the same order.
C15_SeriesNeverModified ==
    [][pdArgs'.data = pdArgs.data]_vars

\* C15 witness: a series given out of date order has gone through
\* processData and ChartDisplay, both of which sort it, and is still out of
\* date order.
C15_Witness ==
    /\ ChartDrawn
    /\ Len(pdArgs.data) = 3
    /\ pdArgs.data[1].date > pdArgs.data[2].date
    /\ pdArgs.data[2].date > pdArgs.data[3].date

\* The earliest sample of the series: of the samples with the least date,
\* the one that comes first in the series.
EarliestSample ==
    LET least == {i \in 1..Len(pdArgs.data) :
                     \A j \in 1..Len(pdArgs.data) : pdArgs.data[i].date <= pdArgs.data[j].date}
    IN  pdArgs.data[CHOOSE i \in least : \A j \in least : i <= j]

\* C16: in every non-empty result inceptionStartDate and inceptionStartValue
\* are the date and value of the earliest sample of the whole series,
\* whatever the period and also when that sample is not in filteredData, and
\* the chart takes its since-inception figures from the same sample.
C16_InceptionIsEarliestSample ==
    /\ PdNonEmpty =>
          /\ PdResult.inceptionStartDate = Some(EarliestSample.date)
          /\ PdResult.inceptionStartValue = Some(EarliestSample.value)
    /\ ChartDrawn =>
          /\ chart[1].inceptionStartDate = EarliestSample.date
          /\ chart[1].inceptionStartValue = EarliestSample.value
          /\ Some(chart[1].inceptionStartDate) = PdResult.inceptionStartDate
          /\ Some(chart[1].inceptionStartValue) = PdResult.inceptionStartValue

\* C16 witness: the series does not begin with its earliest sample, the
\* period leaves that sample out of filteredData, and result and chart both
\* name it as the inception.
C16_Witness ==
    /\ ChartDrawn
    /\ pdArgs.data[1] # EarliestSample
    /\ \A i \in 1..Len(PdResult.filteredData) :
          PdResult.filteredData[i].date > EarliestSample.date
    /\ PdResult.inceptionStartValue = Some(EarliestSample.value)
    /\ chart[1].inceptionStartValue = EarliestSample.value
    /\ EarliestSample.value # PdResult.filteredData[1].value

\* The JavaScript number x is finite and equals num / den (den > 0).
JsEquals(x, num, den) == x.kind = "finite" /\ x.num * den = num * x.den

\* C18: for every non-empty filteredData the chart has one point per sample,
\* in the same order, each with the sample's date and value and with
\* indexedValue = value / filteredData[0].value * 100; the first point's
\* indexedValue is exactly 100.
C18_IndexedFromHundred ==
    ChartDrawn =>
        LET d == PdResult.filteredData
            c == chart[1].chartData
        IN  /\ Len(c) = Len(d)
            /\ JsEquals(c[1].indexedValue, 100, 1)
            /\ \A i \in 1..Len(d) :
                  /\ c[i].date = d[i].date
                  /\ c[i].actualValue = d[i].value
                  /\ d[1].value # 0 =>
                        JsEquals(c[i].indexedValue, d[i].value * 100, d[1].value)

\* lo <= 100 - interval and hi >= 100 + interval for the interval of the
\* range (maxNum - minNum) / den.
AxisHoldsBaseline(lo, hi, minNum, maxNum, den) ==
    /\ lo.num <= (100 - Interval(maxNum - minNum, den)) * lo.den
    /\ hi.num >= (100 + Interval(maxNum - minNum, den)) * hi.den

\* C19: the y-axis bounds [lo, hi] of every chart are numbers with
\* lo <= 100 - interval, hi >= 100 + interval, lo <= every indexed value and
\* hi >= every indexed value, interval being the one chosen for the range
\* of the indexed values.
C19_AxisHoldsBaselineAndValues ==
    ChartDrawn =>
        LET c == chart[1].chartData
            lo == chart[1].yAxisDomain[1]
            hi == chart[1].yAxisDomain[2]
        IN  /\ lo.kind = "finite" /\ hi.kind = "finite"
            /\ \A i \in 1..Len(c) :
                  /\ c[i].indexedValue.kind = "finite"
                  /\ lo.num * c[i].indexedValue.den <= c[i].indexedValue.num * lo.den
                  /\ hi.num * c[i].indexedValue.den >= c[i].indexedValue.num * hi.den
            /\ \E i, j \in 1..Len(c) :
                  /\ \A k \in 1..Len(c) :
                        /\ c[i].indexedValue.num <= c[k].indexedValue.num
                        /\ c[j].indexedValue.num >= c[k].indexedValue.num
                  /\ AxisHoldsBaseline(lo, hi, c[i].indexedValue.num,
                                       c[j].indexedValue.num, c[1].indexedValue.den)

(***************************************************************************)
(* Claims about processExcelFile (checked under SpecIngest).               *)
(***************************************************************************)
IngDone == ingRet # Null
IngResult == ingRet[1]
\* The sheet passes the checks made before the rows are looked at.
IngHeaderOk ==
    /\ Len(ingArgs) >= 2
    /\ ingArgs[1].A.type = "string" /\ ~ingArgs[1].A.empty
    /\ ingArgs[1].B.type = "string" /\ ~ingArgs[1].B.empty

\* The cell holds a date: a serial number, or a text that parses as a date.
HoldsDate(cell) ==
    \/ cell.type = "number"
    \/ cell.type = "string" /\ ~cell.empty /\ cell.date # Null
\* The cell holds a number, 0 included, or a text that reads as a number.
HoldsNumber(cell) ==
    \/ cell.type = "number"
    \/ cell.type = "string" /\ ~cell.empty /\ cell.number # Null
\* The data rows with a valid date and a numeric value.
ValidRows == {i \in 2..Len(ingArgs) : HoldsDate(ingArgs[i].A) /\ HoldsNumber(ingArgs[i].B)}
\* The sample a valid row stands for.
SampleOfRow(i) ==
    [date |-> ParseDate(ingArgs[i].A)[1], value |-> ParseValue(ingArgs[i].B)[1]]

\* C29: the header row is skipped, and a data row is dropped iff its date is
\* unparseable or its value is not numeric: the samples of an accepted sheet
\* are those of the rows with a valid date and a numeric value, the value 0
\* included, and a sheet with two such rows is accepted.
C29_RowDroppedIffInvalid ==
    (IngDone /\ IngHeaderOk) =>
        /\ IngResult.accepted <=> Cardinality(ValidRows) >= 2
        /\ IngResult.accepted =>
              /\ Len(IngResult.data) = Cardinality(ValidRows)
              /\ \A i \in ValidRows :
                    CountIn(IngResult.data, SampleOfRow(i))
                        = Cardinality({j \in ValidRows : SampleOfRow(j) = SampleOfRow(i)})

(***************************************************************************)
(* Claims about the application (checked under SpecApp).                   *)
(***************************************************************************)
\* Uploads whose read is finished, and among them those not handed on.
FinishedUploads == (1..Len(upload.started)) \ upload.reading
DeliveredUploads == {upload.delivered[k] : k \in 1..Len(upload.delivered)}
RejectedUploads == FinishedUploads \ DeliveredUploads

\* A series as the engine expects it from ingestion.
WellFormedSeries(series) ==
    /\ Len(series) >= 2
    /\ \A i \in 1..Len(series) : series[i].date \in Int /\ series[i].value \in Int
    /\ \A i \in 1..(Len(series) - 1) : series[i].date <= series[i + 1].date

\* C21: the series held by the application is the initial empty series
\* until an upload is accepted and from then on the series of the accepted
\* upload that finished last, which has at least 2 samples, is sorted
\* ascending by date and holds only valid dates and numbers; an upload that
\* is rejected never reaches the upload callback, so it leaves the held
\* series as it was.
C21_HeldSeriesFromAcceptedUpload ==
    /\ \A id \in DeliveredUploads : ProcessFile(upload.started[id]).accepted
    /\ \A id \in RejectedUploads : ~ProcessFile(upload.started[id]).accepted
    /\ IF upload.delivered = <<>>
       THEN app.data = <<>>
       ELSE /\ app.data =
                  ProcessFile(upload.started[upload.delivered[Len(upload.delivered)]]).data
            /\ WellFormedSeries(app.data)

\* An accepted upload was followed by a rejected one and the series of the
\* accepted one is still held.
C21_Witness ==
    /\ Len(upload.started) = 2
    /\ upload.started[1] = FileShort
    /\ upload.started[2] = FileBad
    /\ upload.delivered = <<1>>
    /\ RejectedUploads = {2}
    /\ Len(app.data) = 2

(***************************************************************************)
(* Further claims about processData (checked under SpecProcess).           *)
(***************************************************************************)
\* The 30/360 day count of the resolved span of the result.
ResolvedDays == SpecDays(PdResult.startDate[1], PdResult.endDate[1])

\* C22: in a non-empty result returnValue is the compound return
\* (endValue / startValue)^(1 / years) - 1, years = ResolvedDays / 360,
\* exactly when isAnnualized is true and the resolved span counts at least
\* 30 days; in every other case, a span of 0 days included, it is the simple
\* return endValue / startValue - 1, and no exponent 1 / 0 is ever formed.
C22_CompoundExactlyFromOneMonth ==
    PdNonEmpty =>
        LET r == PdResult
            compound == r.isAnnualized /\ ResolvedDays >= 30
        IN  /\ IsPowMinusOne(r.returnValue[1], r.endValue[1], r.startValue[1],
                             IF compound THEN ResolvedDays ELSE 360)
            /\ r.returnValue[1].kind = "finite" =>
                  /\ r.returnValue[1].exponent.den # 0
                  /\ ~compound => r.returnValue[1].exponent = One

\* C22 witness: an annualized result over less than a month whose return is
\* the simple return of a start and end value that differ.
C22_Witness ==
    /\ PdNonEmpty /\ PdResult.isAnnualized
    /\ ResolvedDays < 30
    /\ PdResult.startValue[1] = 1 /\ PdResult.endValue[1] = 2
    /\ PdResult.returnValue[1] = JsFinite([num |-> 2, den |-> 1], One)

\* C23: whenever a result has isAnnualized true its resolved span counts at
\* least 30 days (yearFraction(startDate, endDate) >= 1/12), so the simple
\* return inside the annualized branch is never taken.
C23_AnnualizedSpansAMonth ==
    (PdNonEmpty /\ PdResult.isAnnualized) => ResolvedDays >= 30

(***************************************************************************)
(* Claims about calculateStartDate (checked under SpecStartDate).          *)
(***************************************************************************)
SdDone == sdRet # Null
SdResult == sdRet[1]

\* The months a calendar-offset preset goes back.
OffsetMonths(period) ==
    CASE period = "1m"  -> 1
      [] period = "3m"  -> 3
      [] period = "1y"  -> 12
      [] period = "3y"  -> 36
      [] period = "5y"  -> 60
      [] period = "10y" -> 120
      [] period = "15y" -> 180
      [] period = "20y" -> 240
OffsetPresets == {"1m", "3m", "1y", "3y", "5y", "10y", "15y", "20y"}

\* The number of days of month monthIndex (0 = January) of year.
DaysInMonth(year, monthIndex) ==
    MakeDay(year, monthIndex + 1, 1) - MakeDay(year, monthIndex, 1)

\* Day day of the month n months before monthIndex of year, or the last day
\* of that month when it has no such day.
ClampedMonthsBefore(year, monthIndex, day, n) ==
    LET total == year * 12 + monthIndex - n
        y == total \div 12
        m == total % 12
    IN  MakeDay(y, m, IF day > DaysInMonth(y, m) THEN DaysInMonth(y, m) ELSE day)

\* C24: for a calendar-offset preset calculateStartDate returns the day of
\* endDate in the month the preset's months or years before endDate's,
\* clamped to that month's last day, so the result falls in the target
\* month; for ytd it returns 1 January of endDate's year.
C24_StartDateClampsToTargetMonth ==
    SdDone =>
        LET period == sdArgs[1]
            y == getFullYear(sdArgs[2])
            m == getMonth(sdArgs[2])
            d == getDate(sdArgs[2])
        IN  /\ period \in OffsetPresets =>
                  SdResult = ClampedMonthsBefore(y, m, d, OffsetMonths(period))
            /\ period = "ytd" => SdResult = MakeDay(y, 0, 1)

(***************************************************************************)
(* Claims about the sort of processData (checked under SpecProcess).       *)
(***************************************************************************)
\* The samples of s dated date, in the order they have in s.
SamplesDated(s, date) ==
    LET IsDated(x) == x.date = date
    IN  SelectSeq(s, IsDated)

\* C25: the sort of processData is stable and samples sharing a date are
\* neither merged nor dropped: the samples dated closestStart and those
\* dated closestEnd are in filteredData in the relative order they have in
\* the input, startValue is the value of the first sample of the input
\* dated closestStart and endValue that of the last sample of the input
\* dated closestEnd.
C25_SortStableOnEqualDates ==
    PdNonEmpty =>
        LET r == PdResult
            atStart == SamplesDated(pdArgs.data, r.startDate[1])
            atEnd == SamplesDated(pdArgs.data, r.endDate[1])
        IN  /\ atStart # <<>> /\ atEnd # <<>>
            /\ SamplesDated(r.filteredData, r.startDate[1]) = atStart
            /\ SamplesDated(r.filteredData, r.endDate[1]) = atEnd
            /\ r.startValue[1] = atStart[1].value
            /\ r.endValue[1] = atEnd[Len(atEnd)].value

\* C25 witness: the input is not in date order and holds two samples of
\* different values on the resolved start date, which is not the end date.
C25_Witness ==
    /\ PdNonEmpty
    /\ PdResult.startDate[1] < PdResult.endDate[1]
    /\ Len(pdArgs.data) = 3
    /\ pdArgs.data[1].date = PdResult.startDate[1] /\ pdArgs.data[1].value = 2
    /\ pdArgs.data[2].date = PdResult.endDate[1]
    /\ pdArgs.data[3].date = PdResult.startDate[1] /\ pdArgs.data[3].value = 1
    /\ PdResult.startValue[1] = 2
    /\ Len(PdResult.filteredData) = 3

\* The dates of the series in ascending order, as processData hands them to
\* findClosestDate.
SortedSeriesDates ==
    LET sortedData == SortByDate(pdArgs.data)
    IN  [i \in 1..Len(sortedData) |-> sortedData[i].date]

\* The date of dates that findClosestDate resolves each target to.
ClosestOf(dates, targets) == [t \in targets |-> findClosestDate(t, dates)[1]]

\* Arguments in ascending order have values in ascending order.
IsMonotone(f) == \A s \in DOMAIN f : \A e \in DOMAIN f : s <= e => f[s] <= f[e]

\* The period is a preset, or a custom period whose start is not after its
\* end.
PeriodInOrder ==
    IsCustomCall => pdArgs.customPeriod[1].startDate <= pdArgs.customPeriod[1].endDate

\* C26: over the ascending dates of a series findClosestDate is monotone,
\* targets s <= e resolve to dates in the same order; hence for every
\* preset and every custom period with startDate <= endDate processData
\* finds a non-empty range and the resolved start is never later than the
\* resolved end.
C26_ClosestDateMonotone ==
    (PdDone /\ pdArgs.data # <<>>) =>
        /\ IsMonotone(ClosestOf(SortedSeriesDates, CustomDates \cup SeriesDates))
        /\ PeriodInOrder =>
              /\ ~PdResult.threw
              /\ PdNonEmpty => PdResult.startDate[1] <= PdResult.endDate[1]

\* C26 witness: a custom period from before the first sample to after the
\* last one resolved to two different dates of a series that also holds a
\* sample after today.
C26_Witness ==
    /\ PdNonEmpty /\ IsCustomCall
    /\ pdArgs.customPeriod[1].startDate = DaysFromCivil(2020, 1, 1)
    /\ pdArgs.customPeriod[1].endDate = DaysFromCivil(2021, 3, 1)
    /\ PdResult.startDate[1] < PdResult.endDate[1]
    /\ PdResult.endDate[1] > today

\* The application shows a result computed from its current state.
AppSettled == ~app.crashed /\ ~app.effectPending /\ app.data # <<>>

\* The custom range is the first and last date of the held series, as
\* handleDataUpload leaves it.
CustomIsFullRange ==
    app.customPeriod = [startDate |-> app.data[1].date,
                        endDate |-> app.data[Len(app.data)].date]

\* The fields of a result that the claims compare.
ResultCore(r) ==
    [filteredData |-> r.filteredData, startDate |-> r.startDate,
     endDate |-> r.endDate, returnValue |-> r.returnValue,
     isAnnualized |-> r.isAnnualized]

\* C27: with the custom range as an accepted upload left it, the first and
\* last date of the series, the result shown for the custom period is the
\* since-inception result: filteredData, startDate, endDate, returnValue and
\* isAnnualized are those processData gives for si on the same series.
C27_UneditedCustomIsSinceInception ==
    (AppSettled /\ app.selectedPeriod = "custom" /\ CustomIsFullRange) =>
        ResultCore(app.processedResult)
            = ResultCore(processData(app.data, "si", Some(app.customPeriod)))

\* C28: once the pending effect has run, the result exposed by
\* useDataProcessor is processData applied to the current data,
\* selectedPeriod and customPeriod, whatever uploads, period selections and
\* custom-range edits came before (every change of one of the three having
\* scheduled the effect again), and until data is loaded it is the empty
\* result.
C28_ExposedResultIsCurrent ==
    /\ ~app.effectPending =>
          /\ ~app.crashed
          /\ app.processedResult
                = processData(app.data, app.selectedPeriod, Some(app.customPeriod))
    /\ upload.delivered = <<>> => app.processedResult = EmptyResult

\* C30: when two uploads were started one after the other and both reads
\* are finished, in whichever order, the series and the file name held are
\* those of the upload started second if it was accepted; and the success
\* indicator is never shown together with an error message.
C30_LastStartedUploadWins ==
    /\ (Len(upload.started) = 2 /\ upload.reading = {}
            /\ ProcessFile(upload.started[2]).accepted /\ ~app.crashed) =>
          /\ app.data = ProcessFile(upload.started[2]).data
          /\ upload.fileName = Some(upload.started[2].name)
    /\ ~(upload.fileName # Null /\ upload.success /\ upload.error # Null)

====
